---- MODULE Spec2Model ----
(***************************************************************************)
(* JunctionMLPEvaluator (modules/prediction/evaluator/vehicle/             *)
(* junction_mlp_evaluator.cc): feature extraction, the feed-forward pass   *)
(* and the blending of per-sector probabilities onto lane sequences.       *)
(*                                                                         *)
(* Numbers.  A double is a fixed-point integer with denominator One; every *)
(* input and every extracted feature is a multiple of Tick (resolution     *)
(* 1/Milli), so the 0.5/0.25/0.25 blend is exact.  Positions, ranges and   *)
(* weights are whole numbers.  Angles are integers in milli-degrees        *)
(* (Pi = 180000); atan2 is exact on the vectors used (a table of the       *)
(* directions of the grid -3..3 x -3..3, extended by symmetry), and the    *)
(* obstacle heading is a multiple of a quarter turn, so the rotation into  *)
(* the heading frame is exact.  A double zero keeps its sign where the     *)
(* code's atan2 depends on it (raw_velocity.y).                            *)
(***************************************************************************)
EXTENDS Integers, Sequences, FiniteSets, TLC

VARIABLES
  feature,             \* obstacle_ptr->latest_feature()
  model,               \* model_ptr_ (immutable after LoadModel)
  offline_mode,        \* FLAGS_prediction_offline_mode
  ego_pose,            \* the PoseContainer of ContainerManager, or NoEgo
  call,                \* what the last Evaluate call did (its locals)
  n_eval,              \* number of Evaluate calls made
  time_resolution,     \* FLAGS_prediction_trajectory_time_resolution
  loop                 \* position of SetJunctionFeatureValues' sampling loop

vars == <<feature, model, offline_mode, ego_pose, call, n_eval,
          time_resolution, loop>>

---------------------------------------------------------------------------
\* Bounds of the model.
MaxExits == 2
MaxEval == 2

\* Fixed-point scale.
Tick == 2 * 2
Milli == 10 * 100
One == Tick * Milli

\* Program constants.
Pi == 180000
OBSTACLE_FEATURE_SIZE == 3
EGO_VEHICLE_FEATURE_SIZE == 4
JUNCTION_FEATURE_SIZE == 72
NumSectors == 12
SectorFields == 6
OfflineDump == 2

TwoPi == 2 * Pi

Abs(n) == IF n < 0 THEN -n ELSE n
Max(a, b) == IF a >= b THEN a ELSE b

\* A std::vector<double> holding the values of f, in order.
AsVector(f) == f \o <<>>

\* Division of doubles rounded toward zero at the model's resolution.
TruncDiv(n, d) == IF n >= 0 THEN n \div d ELSE -((-n) \div d)

RECURSIVE SqrtSearch(_, _, _)
SqrtSearch(n, lo, hi) ==
  IF lo >= hi THEN lo
  ELSE LET mid == (lo + hi + 1) \div 2
       IN IF mid * mid <= n THEN SqrtSearch(n, mid, hi)
                            ELSE SqrtSearch(n, lo, mid - 1)

\* The search stays below the square root of the largest machine integer.
ISqrt(n) == SqrtSearch(n, 0, IF n < 46340 THEN n ELSE 46340)

\* std::hypot / std::sqrt of whole-number components, as a fixed-point value.
Hypot(x, y) == Tick * ISqrt((x * x + y * y) * Milli * Milli)

\* The angle in [0, Pi/2] of a vector with y > 0, x >= 0.
BaseAngle(ay, ax) ==
  IF ax = 0 THEN Pi \div 2
  ELSE IF ay = ax THEN Pi \div 4
  ELSE IF 2 * ay = ax THEN 26565
  ELSE IF ay = 2 * ax THEN (Pi \div 2) - 26565
  ELSE IF 3 * ay = ax THEN 18435
  ELSE IF ay = 3 * ax THEN (Pi \div 2) - 18435
  ELSE IF 3 * ay = 2 * ax THEN 33690
  ELSE (Pi \div 2) - 33690

\* std::atan2(y, x); neg_zero_y says that a zero y is the double -0.0.
\* The result lies in [-Pi, Pi]: -Pi is returned for (-0.0, x < 0).
Atan2(y, x, neg_zero_y) ==
  IF y = 0
    THEN IF x >= 0 THEN 0 ELSE IF neg_zero_y THEN -Pi ELSE Pi
    ELSE LET b == BaseAngle(Abs(y), Abs(x))
             q == IF x >= 0 THEN b ELSE Pi - b
         IN IF y > 0 THEN q ELSE -q

\* std::cos and std::sin on multiples of a quarter turn.
Cos(a) == CASE a = 0 -> 1
            [] a = Pi \div 2 \/ a = -(Pi \div 2) -> 0
            [] a = Pi \/ a = -Pi -> -1

Sin(a) == CASE a = 0 \/ a = Pi \/ a = -Pi -> 0
            [] a = Pi \div 2 -> 1
            [] a = -(Pi \div 2) -> -1

\* static_cast<int>(floor(d_idx >= 0 ? d_idx : d_idx + 12)) with
\* d_idx = (angle / (2.0 * M_PI)) * 12.0
BinIndex(angle) ==
  IF angle >= 0 THEN (angle * NumSectors) \div TwoPi
                ELSE (angle * NumSectors + NumSectors * TwoPi) \div TwoPi

---------------------------------------------------------------------------
\* Feature extraction.

NoEgo == [available |-> FALSE, position |-> <<0, 0>>, velocity |-> <<0, 0>>]

\* An angle as a double in radians.
ToRadians(a) == Tick * TruncDiv(a * 3142, Pi)

\* apollo::common::math::AngleDiff(from, to): to - from normalised into
\* (-Pi, Pi] (common/math is outside this file; taken from the design text).
AngleDiff(from, to) ==
  LET d == (to - from) % TwoPi
  IN IF d > Pi THEN d - TwoPi ELSE d

\* The maximum over the sampled Hermite cubic of |x'y'' - y'x''| / hypot(x', y').
\* ComputePolynomial and EvaluateCubicPolynomial are outside this file; only
\* what the design text fixes is kept: the cost is never negative and is 0 on
\* a straight constant-velocity exit.
TrajectoryCost(diff_x, diff_y, diff_heading) ==
  IF diff_y = 0 /\ diff_x >= 0 /\ diff_heading = 0 THEN 0 ELSE One

\* double heading = std::atan2(raw_velocity.y, raw_velocity.x)
Heading(f) ==
  Atan2(f.raw_velocity.y, f.raw_velocity.x, f.raw_velocity.neg_zero_y)

\* The displacement of an exit rotated into the heading frame.
DiffX(f, e) ==
  LET x == e.exit_position[1] - f.position[1]
      y == e.exit_position[2] - f.position[2]
  IN Cos(-Heading(f)) * x - Sin(-Heading(f)) * y

DiffY(f, e) ==
  LET x == e.exit_position[1] - f.position[1]
      y == e.exit_position[2] - f.position[2]
  IN Sin(-Heading(f)) * x + Cos(-Heading(f)) * y

\* The sector SetJunctionFeatureValues writes an exit's descriptor into.
JunctionIdx(f, e) == BinIndex(Atan2(DiffY(f, e), DiffX(f, e), FALSE))

\* void SetObstacleFeatureValues(obstacle_ptr, feature_values)
SetObstacleFeatureValues(f) ==
  IF ~f.has_position THEN <<>>
  ELSE <<f.speed, f.acc, f.junction_range * One>>

\* Vec2d::rotate by a multiple of a quarter turn.
Rotate(v, a) == <<v[1] * Cos(a) - v[2] * Sin(a), v[1] * Sin(a) + v[2] * Cos(a)>>

\* void SetEgoVehicleFeatureValues(obstacle_ptr, feature_values)
SetEgoVehicleFeatureValues(f, ego) ==
  IF ~ego.available THEN <<100 * One, 100 * One, 0, 0>>
  ELSE LET rel == <<ego.position[1] - f.position[1],
                    ego.position[2] - f.position[2]>>
           vel == Rotate(ego.velocity, -f.velocity_heading)
       IN <<rel[1] * One, rel[2] * One, vel[1] * One, vel[2] * One>>

\* The neutral descriptor of a sector: {0, 1, 1, 1, 0, 0}.
SectorDefault(k) ==
  CASE k = 0 -> 0
    [] k = 1 -> One
    [] k = 2 -> One
    [] k = 3 -> One
    [] k = 4 -> 0
    [] k = 5 -> 0

\* feature_values->operator[](idx * 6 + k) = ... for k = 0..5 (an index past
\* the end writes nothing the vector holds).
WriteSector(values, f, e) ==
  LET diff_x == DiffX(f, e)
      diff_y == DiffY(f, e)
      diff_heading == AngleDiff(Heading(f), e.exit_heading)
      idx == JunctionIdx(f, e)
      base == idx * SectorFields
  IN [values EXCEPT
        ![base + 1] = One,
        ![base + 2] = Tick * TruncDiv(diff_x * Milli, f.junction_range),
        ![base + 3] = Tick * TruncDiv(diff_y * Milli, f.junction_range),
        ![base + 4] = Tick * (ISqrt((diff_x * diff_x + diff_y * diff_y)
                                     * Milli * Milli) \div f.junction_range),
        ![base + 5] = ToRadians(diff_heading),
        ![base + 6] = TrajectoryCost(diff_x, diff_y, diff_heading)]

RECURSIVE WriteExits(_, _, _)
WriteExits(values, f, i) ==
  IF i > Len(f.junction_exit) THEN values
  ELSE WriteExits(WriteSector(values, f, f.junction_exit[i]), f, i + 1)

\* void SetJunctionFeatureValues(obstacle_ptr, feature_values)
SetJunctionFeatureValues(f) ==
  IF ~f.has_position THEN <<>>
  ELSE IF ~f.has_junction_feature THEN <<>>
  ELSE WriteExits(AsVector([n \in 1..(NumSectors * SectorFields) |->
                              SectorDefault((n - 1) % SectorFields)]), f, 1)

\* void ExtractFeatureValues(obstacle_ptr, feature_values)
ExtractFeatureValues(f, ego) ==
  LET obstacle_feature_values == SetObstacleFeatureValues(f)
      ego_vehicle_feature_values == SetEgoVehicleFeatureValues(f, ego)
      junction_feature_values == SetJunctionFeatureValues(f)
  IN IF Len(obstacle_feature_values) # OBSTACLE_FEATURE_SIZE THEN <<>>
     ELSE IF Len(ego_vehicle_feature_values) # EGO_VEHICLE_FEATURE_SIZE THEN <<>>
     ELSE IF Len(junction_feature_values) # JUNCTION_FEATURE_SIZE THEN <<>>
     ELSE obstacle_feature_values \o ego_vehicle_feature_values
            \o junction_feature_values

---------------------------------------------------------------------------
\* The model (FnnVehicleModel) and the forward pass.

\* The networks LoadModel may have read: one RELU layer 79 x 12 that copies
\* its first 12 inputs, the same followed by a 12 x 12 layer that shifts its
\* inputs cyclically by one, and a network declaring 78 inputs.
Models == {"mlp", "mlp2", "mlp78"}

DimInput(m) == IF m = "mlp78" THEN 78 ELSE 79

NumLayer(m) == IF m = "mlp2" THEN 2 ELSE 1

\* layer.layer_input_weight().rows_size()
RowsSize(m, i) == IF i = 0 THEN DimInput(m) ELSE NumSectors

\* layer.layer_input_weight().rows(0).columns_size()
ColumnsSize(m, i) == NumSectors

\* layer.layer_input_weight().rows(row).columns(col)
Weight(m, i, row, col) ==
  IF i = 0 THEN (IF row = col THEN 1 ELSE 0)
           ELSE (IF row = (col + 1) % NumSectors THEN 1 ELSE 0)

\* layer.layer_bias().columns(col)
Bias(m, i, col) == 0

\* layer.layer_activation_func()
ActivationFunc(m, i) == "RELU"

\* math_util::Relu (outside this file; RELU(x) = max(0, x) in the design text).
Relu(x) == Max(0, x)

\* The per-neuron activation of ComputeProbability (the networks above use
\* RELU only).
Activation(func, x) == CASE func = "RELU" -> Relu(x)

\* What a read of reserved but never written storage returns.
UninitChoices == {"zeros", "hot"}

UninitValue(u, row) == IF u = "hot" /\ row = 0 THEN One ELSE 0

\* layer_input[row]: the element, or, past the vector's size, whatever the
\* reserved storage holds.
InputRead(layer_input, row, u) ==
  IF row < Len(layer_input) THEN layer_input[row + 1] ELSE UninitValue(u, row)

\* The input vector of layer 0: layer_input is declared empty and only
\* reserved; feature_values is never copied into it.
FirstLayerInput(feature_values) == <<>>

\* The sum over row in lo..hi of layer_input[row] * weight (row, col); the
\* sum is exact, so the order of the additions is immaterial.
RECURSIVE WeightedSum(_, _, _, _, _, _, _)
WeightedSum(m, i, col, lo, hi, layer_input, u) ==
  IF lo > hi THEN 0
  ELSE IF lo = hi THEN InputRead(layer_input, lo, u) * Weight(m, i, lo, col)
  ELSE LET mid == (lo + hi) \div 2
       IN WeightedSum(m, i, col, lo, mid, layer_input, u)
            + WeightedSum(m, i, col, mid + 1, hi, layer_input, u)

\* double neuron_output = bias(col); for each row: += layer_input[row] * weight
NeuronSum(m, i, col, layer_input, u) ==
  Bias(m, i, col) + WeightedSum(m, i, col, 0, RowsSize(m, i) - 1, layer_input, u)

\* The layer_output of layer i: one activated neuron per column.
ComputeLayer(m, i, layer_input, u) ==
  AsVector([c \in 1..ColumnsSize(m, i) |->
     Activation(ActivationFunc(m, i), NeuronSum(m, i, c - 1, layer_input, u))])

\* ComputeLayer of layer 0 on an empty input vector, tabulated per network.
OnEmptyInput ==
  [m \in Models |-> [u \in UninitChoices |-> ComputeLayer(m, 0, <<>>, u)]]

\* ComputeLayer, read from the table where the table has the value.
LayerOutput(m, i, layer_input, u) ==
  IF i = 0 /\ layer_input = <<>> THEN OnEmptyInput[m][u]
  ELSE ComputeLayer(m, i, layer_input, u)

RECURSIVE RunLayers(_, _, _, _, _)
RunLayers(m, i, layer_input, u, oob) ==
  IF i >= NumLayer(m) THEN [out |-> layer_input, input_oob |-> oob]
  ELSE RunLayers(m, i + 1, LayerOutput(m, i, layer_input, u), u,
                 oob \/ (ColumnsSize(m, i) > 0 /\ RowsSize(m, i) > Len(layer_input)))

\* std::vector<double> ComputeProbability(feature_values): the returned vector,
\* and whether a layer_input[row] read was past the vector's size.
ComputeProbability(feature_values, m, u) ==
  IF DimInput(m) # Len(feature_values)
    THEN [out |-> <<>>, input_oob |-> FALSE]
    ELSE IF NumLayer(m) = 0 THEN [out |-> <<>>, input_oob |-> FALSE]
    ELSE RunLayers(m, 0, FirstLayerInput(feature_values), u, FALSE)

---------------------------------------------------------------------------
\* Blending and assignment.

\* The angle Evaluate bins: atan2(exit bearing) - atan2(raw velocity).
EvalAngle(f, e) ==
  LET x == e.exit_position[1] - f.position[1]
      y == e.exit_position[2] - f.position[2]
  IN Atan2(y, x, FALSE) - Heading(f)

EvalIdx(f, e) == BinIndex(EvalAngle(f, e))

PrevIdxNoWrap(idx) == IF idx = 0 THEN 0 ELSE idx - 1

\* int prev_idx = idx == 0 ? 11 : idx - 1
PrevIdx(idx) == IF idx = 0 THEN 11 ELSE idx - 1

\* int post_idx = idx == 11 ? 0 : idx + 1
PostIdx(idx) == IF idx = 11 THEN 0 ELSE idx + 1

\* v[i], 0-based; past the end the read returns g.
VecRead(v, i, g) == IF i >= 0 /\ i < Len(v) THEN v[i + 1] ELSE g

\* probability[idx] * 0.5 + probability[prev_idx] * 0.25 + probability[post_idx] * 0.25
Smoothed(p, idx, g) ==
  (2 * VecRead(p, idx, g) + VecRead(p, PrevIdx(idx), g)
     + VecRead(p, PostIdx(idx), g)) \div 4

BlendOob(p, idx) ==
  \E i \in {idx, PrevIdx(idx), PostIdx(idx)} : i < 0 \/ i >= Len(p)

EmptyMap == [l \in {} |-> 0]

\* The loop over junction_exit() filling junction_exit_prob; with `crash` the
\* process dies at the first read past the end of probability.
RECURSIVE BlendExits(_, _, _, _, _, _)
BlendExits(f, i, p, g, crash, acc) ==
  IF i > Len(f.junction_exit) THEN acc
  ELSE LET e == f.junction_exit[i]
           idx == EvalIdx(f, e)
           bad == BlendOob(p, idx)
       IN IF bad /\ crash
            THEN [map |-> acc.map, idxs |-> Append(acc.idxs, idx),
                  oob |-> TRUE, crashed |-> TRUE]
            ELSE BlendExits(f, i + 1, p, g, crash,
                   [map |-> (e.exit_lane_id :> Smoothed(p, idx, g)) @@ acc.map,
                    idxs |-> Append(acc.idxs, idx),
                    oob |-> acc.oob \/ bad, crashed |-> FALSE])

RECURSIVE ScanFirstMatch(_, _, _, _)
ScanFirstMatch(segs, j, map, prob) ==
  IF j > Len(segs) THEN prob
  ELSE IF segs[j] \in DOMAIN map THEN map[segs[j]]
  ELSE ScanFirstMatch(segs, j + 1, map, prob)

\* The loop over lane_segment() of one lane sequence: every matching segment
\* sets the probability.
RECURSIVE ScanSegments(_, _, _, _)
ScanSegments(segs, j, map, prob) ==
  IF j > Len(segs) THEN prob
  ELSE ScanSegments(segs, j + 1, map,
                    IF segs[j] \in DOMAIN map THEN map[segs[j]] ELSE prob)

AssignFirstMatch(ls, map) ==
  [ls EXCEPT !.probability = ScanFirstMatch(ls.lane_segment, 1, map, ls.probability)]

AssignLaneSequence(ls, map) ==
  [ls EXCEPT !.probability = ScanSegments(ls.lane_segment, 1, map, ls.probability)]

NoCall ==
  [ret |-> "none", called_inference |-> FALSE, probability |-> <<>>,
   junction_exit_prob |-> EmptyMap, oob_read |-> FALSE, input_oob |-> FALSE,
   blend_idx |-> <<>>]

\* The single-exit branch: probability.push_back(feature_values[3 + 6 * i]).
SingleExitProbability(feature_values, g) ==
  AsVector([i \in 1..NumSectors |->
              VecRead(feature_values, 3 + SectorFields * (i - 1), g)])

\* What a read past the end of a vector does: it kills the process, or
\* returns g.
OobOutcomes ==
  { [crash |-> TRUE, g |-> 0], [crash |-> FALSE, g |-> 0],
    [crash |-> FALSE, g |-> One] }

\* Evaluate from the point where feature_values is extracted (normal mode):
\* the feature and the call record it leaves.  inference is what
\* ComputeProbability(feature_values) returns, o what reads past the end do.
EvaluateResult(f, feature_values, inference, o) ==
  LET multi == Len(f.junction_exit) > 1
      single_oob == ~multi /\ Len(feature_values) < 3 + SectorFields * (NumSectors - 1) + 1
      probability == IF multi THEN inference.out
                     ELSE SingleExitProbability(feature_values, o.g)
      c1 == [NoCall EXCEPT !.called_inference = multi,
                           !.probability = probability,
                           !.oob_read = single_oob,
                           !.input_oob = multi /\ inference.input_oob]
      f1 == [f EXCEPT !.junction_mlp_probability = @ \o probability]
      blend == BlendExits(f, 1, probability, o.g, o.crash,
                 [map |-> EmptyMap, idxs |-> <<>>, oob |-> FALSE, crashed |-> FALSE])
  IN IF single_oob /\ o.crash
       THEN [feature |-> f,
             call |-> [NoCall EXCEPT !.ret = "crash", !.oob_read = TRUE]]
     ELSE IF Len(f.lane_sequence) = 0
       THEN [feature |-> f1, call |-> [c1 EXCEPT !.ret = "no_lane_sequence"]]
     ELSE IF blend.crashed
       THEN [feature |-> f1,
             call |-> [c1 EXCEPT !.ret = "crash", !.oob_read = TRUE,
                                 !.blend_idx = blend.idxs]]
     ELSE [feature |->
             [f1 EXCEPT !.lane_sequence =
                [s \in 1..Len(f.lane_sequence) |->
                   AssignLaneSequence(f.lane_sequence[s], blend.map)]],
           call |-> [c1 EXCEPT !.ret = "done",
                               !.junction_exit_prob = blend.map,
                               !.oob_read = single_oob \/ blend.oob,
                               !.blend_idx = blend.idxs]]

---------------------------------------------------------------------------
\* The obstacle states evaluated.

\* Where the tracker saw the obstacle.
ObstaclePosition == <<1, 1>>

\* Exits, by displacement from the obstacle, with their headings.
ExitChoices ==
  { [d |-> <<2, 1>>, exit_heading |-> 0],
    [d |-> <<2, -1>>, exit_heading |-> 0],
    [d |-> <<1, 1>>, exit_heading |-> Pi \div 2],
    [d |-> <<-1, 0>>, exit_heading |-> Pi] }

\* raw_velocity: along an axis; a zero y may be the double -0.0.
Velocities ==
  { [x |-> 1, y |-> 0, neg_zero_y |-> FALSE],
    [x |-> 0, y |-> 1, neg_zero_y |-> FALSE],
    [x |-> -1, y |-> 0, neg_zero_y |-> FALSE],
    [x |-> -1, y |-> 0, neg_zero_y |-> TRUE] }

\* The probability upstream evaluators left on a lane sequence.
PriorProbability == 3 * Milli

\* Lane ids are numbers: exit k leaves by lane k, lane 0 is no exit's lane.
AllLaneSequences ==
  << [lane_segment |-> <<1, 0, 2>>, probability |-> PriorProbability],
     [lane_segment |-> <<0>>, probability |-> PriorProbability],
     [lane_segment |-> <<2, 1>>, probability |-> PriorProbability] >>

LaneGraphs == {SubSeq(AllLaneSequences, 1, n) : n \in 0..Len(AllLaneSequences)}

\* Junction exits with pairwise different positions; the junction analyzer
\* keys exits by lane id, so the lane ids differ too.
ExitLists ==
  UNION { { [k \in 1..n |->
              [exit_position |-> <<ObstaclePosition[1] + c[k].d[1],
                                   ObstaclePosition[2] + c[k].d[2]>>,
               exit_heading |-> c[k].exit_heading,
               exit_lane_id |-> k]] :
            c \in {c \in [1..n -> ExitChoices] :
                     \A a, b \in 1..n : a # b => c[a] # c[b]} } :
          n \in 0..MaxExits }

EgoPose == [available |-> TRUE, position |-> <<3, 1>>, velocity |-> <<1, 0>>]

\* A Feature without a position reads position() as the default (0, 0).
MakeFeature(init, pos, jf, vel, exits, graph, speed) ==
  [initialized |-> init,
   has_position |-> pos,
   position |-> IF pos THEN ObstaclePosition ELSE <<0, 0>>,
   raw_velocity |-> vel,
   velocity_heading |-> Atan2(vel.y, vel.x, vel.neg_zero_y),
   speed |-> speed,
   acc |-> 0,
   has_junction_feature |-> jf,
   junction_range |-> 2,
   junction_exit |-> exits,
   junction_mlp_probability |-> <<>>,
   lane_sequence |-> graph]

DefaultVelocity == [x |-> 1, y |-> 0, neg_zero_y |-> FALSE]

Features ==
  { MakeFeature(FALSE, FALSE, FALSE, DefaultVelocity, <<>>, <<>>, 2 * One),
    MakeFeature(TRUE, TRUE, FALSE, DefaultVelocity, <<>>, <<>>, 2 * One) }
  \cup { MakeFeature(TRUE, TRUE, TRUE, vel, exits, graph, 2 * One) :
           vel \in Velocities, exits \in ExitLists, graph \in LaneGraphs }
  \cup { MakeFeature(TRUE, FALSE, TRUE, DefaultVelocity, exits, graph, 2 * One) :
           exits \in ExitLists, graph \in LaneGraphs }

\* The default of FLAGS_prediction_trajectory_time_resolution, 0.1 s.
DefaultResolution == One \div 10

IdleLoop == [pc |-> "idle", i |-> 0, t |-> 0, exit_time |-> 0]

\* The deployments: the model loaded, the mode flag and the ego pose container.
Configs ==
  { [model |-> "mlp", offline |-> 0, ego |-> NoEgo],
    [model |-> "mlp", offline |-> 0, ego |-> EgoPose],
    [model |-> "mlp2", offline |-> 0, ego |-> NoEgo],
    [model |-> "mlp78", offline |-> 0, ego |-> NoEgo],
    [model |-> "mlp", offline |-> OfflineDump, ego |-> EgoPose] }

Init ==
  /\ feature \in Features
  /\ \E c \in Configs : model = c.model /\ offline_mode = c.offline /\ ego_pose = c.ego
  /\ call = NoCall
  /\ n_eval = 0
  /\ time_resolution = DefaultResolution
  /\ loop = IdleLoop

\* One call of Evaluate on the obstacle's current Feature.  u is what the
\* reserved storage of layer_input holds.
Evaluate(u) ==
  /\ n_eval < MaxEval
  /\ call.ret # "crash"
  /\ n_eval' = n_eval + 1
  /\ UNCHANGED <<model, offline_mode, ego_pose, time_resolution, loop>>
  /\ IF ~feature.initialized
       THEN feature' = feature /\ call' = [NoCall EXCEPT !.ret = "no_feature"]
     ELSE IF ~feature.has_junction_feature \/ Len(feature.junction_exit) < 1
       THEN feature' = feature /\ call' = [NoCall EXCEPT !.ret = "no_junction_exit"]
     ELSE LET feature_values == ExtractFeatureValues(feature, ego_pose)
              inference == ComputeProbability(feature_values, model, u)
          IN IF offline_mode = OfflineDump
               THEN feature' = feature /\ call' = [NoCall EXCEPT !.ret = "offline"]
               ELSE \E o \in OobOutcomes :
                      LET r == EvaluateResult(feature, feature_values, inference, o)
                      IN feature' = r.feature /\ call' = r.call

Next == \E u \in UninitChoices : Evaluate(u)

Spec == Init /\ [][Next]_vars

---------------------------------------------------------------------------
\* The trajectory sampling loop of SetJunctionFeatureValues, step by step.

\* double speed = std::max(0.1, feature_ptr->speed())
Speed(f) == Max(One \div 10, f.speed)

\* double exit_time = std::hypot(diff_x, diff_y) / speed
ExitTime(f, e) == Tick * ((Hypot(DiffX(f, e), DiffY(f, e)) * Milli) \div Speed(f))

\* The configured time steps and obstacle speeds sampled.
Resolutions == {0, One \div 2, 2 * One}
Speeds == {0, One, 2 * One}

LoopInit ==
  /\ feature \in { MakeFeature(TRUE, TRUE, TRUE, DefaultVelocity, exits, <<>>, speed) :
                     exits \in ExitLists \ {<<>>}, speed \in Speeds }
  /\ model = "mlp"
  /\ offline_mode = 0
  /\ ego_pose = NoEgo
  /\ call = NoCall
  /\ n_eval = 0
  /\ time_resolution \in Resolutions
  /\ loop = [pc |-> "next_exit", i |-> 1, t |-> 0, exit_time |-> 0]

\* for (int i = 0; i < num_junction_exit; ++i) { ...; double t = 0.0; ...
BeginExit ==
  /\ loop.pc = "next_exit"
  /\ loop.i <= Len(feature.junction_exit)
  /\ loop' = [loop EXCEPT !.pc = "test", !.t = 0,
                          !.exit_time = ExitTime(feature, feature.junction_exit[loop.i])]
  /\ UNCHANGED <<feature, model, offline_mode, ego_pose, call, n_eval, time_resolution>>

\* The loop over the exits is over.
ExitsDone ==
  /\ loop.pc = "next_exit"
  /\ loop.i > Len(feature.junction_exit)
  /\ loop' = [loop EXCEPT !.pc = "done"]
  /\ UNCHANGED <<feature, model, offline_mode, ego_pose, call, n_eval, time_resolution>>

\* while (t <= exit_time)
LoopTest ==
  /\ loop.pc = "test"
  /\ loop' = IF loop.t <= loop.exit_time
               THEN [loop EXCEPT !.pc = "body"]
               ELSE [loop EXCEPT !.pc = "next_exit", !.i = @ + 1]
  /\ UNCHANGED <<feature, model, offline_mode, ego_pose, call, n_eval, time_resolution>>

\* cost = std::max(cost, ...); t += FLAGS_prediction_trajectory_time_resolution
LoopBody ==
  /\ loop.pc = "body"
  /\ loop' = [loop EXCEPT !.pc = "test", !.t = @ + time_resolution]
  /\ UNCHANGED <<feature, model, offline_mode, ego_pose, call, n_eval, time_resolution>>

LoopNext == BeginExit \/ ExitsDone \/ LoopTest \/ LoopBody

\* The evaluation runs on one thread that keeps executing.
LoopSpec == LoopInit /\ [][LoopNext]_vars /\ WF_vars(LoopNext)

---------------------------------------------------------------------------
\* Properties.

\* The feature vector of the current Feature (Evaluate leaves its inputs alone).
CurrentFeatureValues == ExtractFeatureValues(feature, ego_pose)

Exits == feature.junction_exit

\* The norm_dist field (4th of 6) of sector i, i = 0..11.
NormDist(junction_feature_values, i) == junction_feature_values[SectorFields * i + 4]

\* 0.5 p[idx] + 0.25 p[idx - 1 mod 12] + 0.25 p[idx + 1 mod 12]
RefBlend(p, idx) ==
  (2 * p[idx + 1] + p[((idx + NumSectors - 1) % NumSectors) + 1]
     + p[((idx + 1) % NumSectors) + 1]) \div 4

\* p = [1, 0, ..., 0]
UnitAtZero == [i \in 1..NumSectors |-> IF i = 1 THEN One ELSE 0]

\* C1: with exactly one exit (normal mode) Evaluate does not call
\* ComputeProbability, and its 12 values are the norm_dist fields of the
\* sectors 0..11 in order.
C1_SingleExitUsesNormDist ==
  (call.ret \in {"done", "no_lane_sequence"} /\ Len(Exits) = 1 /\ feature.has_position)
    => /\ ~call.called_inference
       /\ call.probability =
            [i \in 1..NumSectors |-> NormDist(SetJunctionFeatureValues(feature), i - 1)]

\* C2: when the feature vector's length differs from the model's input
\* dimension, ComputeProbability returns an empty vector and Evaluate reads no
\* element of it, appends nothing and changes no lane sequence probability.
C2_MismatchLeavesUntouched ==
  [][ ( /\ n_eval' = n_eval + 1
        /\ call'.called_inference
        /\ feature.has_position
        /\ DimInput(model) # Len(CurrentFeatureValues) )
      => ( /\ call'.probability = <<>>
           /\ ~call'.oob_read
           /\ call'.ret # "crash"
           /\ feature' = feature ) ]_vars

\* C3: without a position the feature extraction returns nothing and Evaluate
\* returns early: no read of the empty feature vector, nothing appended, no
\* lane sequence probability changed, with one exit and with several.
C3_NoPositionAborts ==
  [][ ( /\ n_eval' = n_eval + 1
        /\ feature.initialized /\ feature.has_junction_feature
        /\ Len(Exits) >= 1
        /\ offline_mode # OfflineDump
        /\ ~feature.has_position )
      => ( /\ CurrentFeatureValues = <<>>
           /\ ~call'.oob_read
           /\ call'.ret # "crash"
           /\ feature' = feature ) ]_vars

\* C4: for a feature vector of the model's input dimension, ComputeProbability
\* returns the forward pass whose first layer reads the feature vector and
\* whose later layers read the previous layer's output, and every
\* layer_input[row] read is within the vector.
C4_ForwardPassOfFeatureVector ==
  (call.called_inference /\ Len(CurrentFeatureValues) = DimInput(model))
    => /\ ~call.input_oob
       /\ call.probability = RunLayers(model, 0, CurrentFeatureValues, "zeros", FALSE).out

\* The segments of a lane sequence whose lane id is an exit's lane id.
Matches(ls) ==
  {j \in 1..Len(ls.lane_segment) :
     \E k \in 1..Len(Exits) : Exits[k].exit_lane_id = ls.lane_segment[j]}

LastMatch(ls) == CHOOSE j \in Matches(ls) : \A j2 \in Matches(ls) : j2 <= j

ExitOfLane(l) == CHOOSE k \in 1..Len(Exits) : Exits[k].exit_lane_id = l

\* C5: Evaluate changes a lane sequence's probability only if one of its
\* segments has an exit's lane id; with several such segments the last one in
\* segment order decides, and its exit's smoothed value is the result; a
\* sequence without such a segment keeps its probability, call after call.
C5_OnlyMatchingSequencesLastWins ==
  [][ /\ Len(feature'.lane_sequence) = Len(feature.lane_sequence)
      /\ \A s \in 1..Len(feature.lane_sequence) :
           LET before == feature.lane_sequence[s]
               after == feature'.lane_sequence[s]
               lane == before.lane_segment[LastMatch(before)]
           IN /\ after.lane_segment = before.lane_segment
              /\ Matches(before) = {} => after.probability = before.probability
              /\ call'.ret # "done" => after.probability = before.probability
              /\ (call'.ret = "done" /\ Matches(before) # {})
                   => /\ after.probability = call'.junction_exit_prob[lane]
                      /\ ~call'.oob_read
                           => after.probability =
                                RefBlend(call'.probability,
                                         EvalIdx(feature, Exits[ExitOfLane(lane)])) ]_vars

\* A sequence with two matching segments of different smoothed values took the
\* last one's, and a sequence without a match kept its probability, on the
\* second evaluation.
C5_Witness ==
  /\ call.ret = "done" /\ n_eval = 2 /\ ~call.oob_read
  /\ \E s \in 1..Len(feature.lane_sequence) :
       LET ls == feature.lane_sequence[s]
       IN /\ \E j1, j2 \in Matches(ls) :
               /\ j1 < j2 /\ j2 = LastMatch(ls)
               /\ call.junction_exit_prob[ls.lane_segment[j1]]
                    # call.junction_exit_prob[ls.lane_segment[j2]]
          /\ ls.probability = call.junction_exit_prob[ls.lane_segment[LastMatch(ls)]]
          /\ ls.probability # PriorProbability
  /\ \E s \in 1..Len(feature.lane_sequence) :
       /\ Matches(feature.lane_sequence[s]) = {}
       /\ feature.lane_sequence[s].probability = PriorProbability

\* C6: for 12 values p and an exit in sector idx in 0..11 the value keyed by
\* the exit's lane id is 0.5 p[idx] + 0.25 p[idx-1 mod 12] + 0.25 p[idx+1 mod 12],
\* wrapping at both ends and not renormalised; for p = [1, 0, ..., 0] sector 0
\* gets 0.5, sector 1 gets 0.25 and sector 11 gets 0.25.
C6_SmoothingWraps ==
  (call.ret = "done" /\ Len(call.probability) = NumSectors)
    => \A k \in 1..Len(Exits) :
         LET idx == EvalIdx(feature, Exits[k])
             value == call.junction_exit_prob[Exits[k].exit_lane_id]
         IN idx \in 0..(NumSectors - 1)
              => /\ value = RefBlend(call.probability, idx)
                 /\ call.probability = UnitAtZero
                      => /\ idx = 0 => value = One \div 2
                         /\ idx = 1 => value = One \div 4
                         /\ idx = 11 => value = One \div 4
                         /\ idx \in 2..10 => value = 0

\* p = [1, 0, ..., 0] was blended for an exit in sector 0 and one in sector 11.
C6_Witness ==
  /\ call.ret = "done" /\ call.probability = UnitAtZero
  /\ \E k0, k11 \in 1..Len(Exits) :
       /\ EvalIdx(feature, Exits[k0]) = 0
       /\ call.junction_exit_prob[Exits[k0].exit_lane_id] = One \div 2
       /\ EvalIdx(feature, Exits[k11]) = 11
       /\ call.junction_exit_prob[Exits[k11].exit_lane_id] = One \div 4

\* An angle and the angle a full turn away fall into the same sector.
SameSectorAfterFullTurn(a) ==
  /\ a > 0 => BinIndex(a - TwoPi) = BinIndex(a)
  /\ a < 0 => BinIndex(a + TwoPi) = BinIndex(a)

Offsets == {<<5, 0>>, <<-3, 7>>}

Translated(f, off) ==
  [f EXCEPT !.position = <<@[1] + off[1], @[2] + off[2]>>,
            !.junction_exit =
               [k \in 1..Len(f.junction_exit) |->
                  [f.junction_exit[k] EXCEPT
                     !.exit_position = <<@[1] + off[1], @[2] + off[2]>>]]]

\* C7: the sector of an exit is circular (bearings 0 and 2 Pi share a sector)
\* and unchanged when obstacle and exit are translated together, for every
\* angle the two index computations produce.
C7_SectorCircularTranslationInvariant ==
  (call.ret = "done" /\ feature.has_position)
    => \A k \in 1..Len(Exits) :
         /\ SameSectorAfterFullTurn(EvalAngle(feature, Exits[k]))
         /\ SameSectorAfterFullTurn(Atan2(DiffY(feature, Exits[k]),
                                          DiffX(feature, Exits[k]), FALSE))
         /\ \A off \in Offsets :
              /\ EvalIdx(Translated(feature, off), Translated(feature, off).junction_exit[k])
                   = EvalIdx(feature, Exits[k])
              /\ JunctionIdx(Translated(feature, off), Translated(feature, off).junction_exit[k])
                   = JunctionIdx(feature, Exits[k])

\* C8: the sampling loops of an evaluation come to an end.
C8_SamplingTerminates == <>(loop.pc = "done")

\* C9: the sector Evaluate recomputes for an exit is the sector
\* SetJunctionFeatureValues wrote the exit into, and both lie in 0..11.
C9_BlendIndexIsFeatureIndex ==
  (call.ret \in {"done", "crash"} /\ feature.has_position)
    => \A k \in 1..Len(call.blend_idx) :
         /\ call.blend_idx[k] = JunctionIdx(feature, Exits[k])
         /\ call.blend_idx[k] \in 0..(NumSectors - 1)
         /\ JunctionIdx(feature, Exits[k]) \in 0..(NumSectors - 1)

\* C10: in normal mode with at least one exit the per-sector probability list
\* holds 0 or 12 values after any number of Evaluate calls, and nothing is
\* appended when the lane graph has no sequence.
C10_ListHoldsZeroOrTwelve ==
  (feature.initialized /\ feature.has_position /\ feature.has_junction_feature
     /\ Len(Exits) >= 1 /\ offline_mode # OfflineDump)
    => /\ Len(feature.junction_mlp_probability) \in {0, NumSectors}
       /\ call.ret = "no_lane_sequence" => Len(feature.junction_mlp_probability) = 0

====
